---- MODULE Spec2Model ----
(***************************************************************************)
(* Model of av1an-core/src/ffmpeg.rs: the audio pipeline encode_audio /    *)
(* handle_opus as an orchestrator that spawns external processes and       *)
(* waits on them, together with the pure helpers it uses.                  *)
(*                                                                         *)
(* The orchestrator is one sequential thread (pc).  Every external         *)
(* process is an entry of procs; the environment action ProcExit lets any  *)
(* running process end with any exit status at any time.                   *)
(***************************************************************************)
EXTENDS Integers, Sequences, FiniteSets, TLC

VARIABLES
  source,        \* the input file: [path, canOpen, streams]; streams[i] is stream index i-1
  temp,          \* the workspace path
  opus_mode,     \* encode_audio's opus_mode flag
  audio_params,  \* encode_audio's audio_params
  fs0,           \* the workspace's content when encode_audio is called
  fs,            \* the workspace's content now (set of paths)
  pc,            \* position of the orchestrating thread
  result,        \* what encode_audio returned
  procs,         \* every Command the call has tried to spawn, in spawn order
  cur,           \* handle_opus: index of the audio stream the fold is at
  audio_data,    \* handle_opus: the fold's accumulator (stream indices)
  run,           \* which call of encode_audio on this workspace this is (1 or 2)
  prev,          \* what the first call did (its Commands, how it ended), once it has ended
  probe,         \* a call of a probing function: its inputs, the library's best video
                 \* stream of the file, and what the function returned
  est,           \* a run of the bitrate estimator on one stream
  panic          \* where the calling thread panicked ("none" while it has not)

vars == <<source, temp, opus_mode, audio_params, fs0, fs, pc, result, procs,
          cur, audio_data, run, prev, probe, est, panic>>

\* what encode_audio and handle_opus never touch
aside == <<run, prev, probe, est>>

(***************************************************************************)
(* Bounds                                                                  *)
(***************************************************************************)
MaxStreams == 3

(***************************************************************************)
(* Inputs                                                                  *)
(***************************************************************************)
\* A stream descriptor: medium, channel-layout mask (by name) and channel count.
VideoStream == [medium |-> "video", layout |-> "zero", channels |-> 0]
SubtitleStream == [medium |-> "subtitle", layout |-> "zero", channels |-> 0]
AudioStream(l, c) == [medium |-> "audio", layout |-> l, channels |-> c]

StreamChoices ==
  {VideoStream, SubtitleStream, AudioStream("STEREO", 2), AudioStream("unknown_bits", 6)}

\* a smaller family: a stream that is not audio, a stream that is
FewStreamChoices == {SubtitleStream, AudioStream("STEREO", 2)}

RECURSIVE SeqsUpTo(_, _)
SeqsUpTo(S, n) ==
  IF n = 0 THEN {<< >>}
  ELSE LET shorter == SeqsUpTo(S, n - 1)
       IN shorter \cup {Append(s, x) : s \in {t \in shorter : Len(t) = n - 1}, x \in S}

\* A path is a string; the character "%" in it stands for a byte sequence
\* that is not valid UTF-8, and "?" for U+FFFD REPLACEMENT CHARACTER.
InvalidByte == "%"
Replacement == "?"

\* the input path: valid UTF-8, not valid UTF-8
InputChoices == {"in.mkv", "in%.mkv"}
\* the workspace path: absolute, relative with a trailing separator, empty,
\* not valid UTF-8
TempChoices == {"/w", "w/", "", "w%"}

\* The kind of a stream beyond audio / not audio never meets the workspace
\* path, so the full family of streams goes with one workspace and the
\* smaller family with the others.
StreamChoicesFor(t) == IF t = "/w" THEN StreamChoices ELSE FewStreamChoices
AudioParamChoices == {<< >>, <<"-c:a", "aac", "-b:a", "96k">>}

\* audio_params is read in standard mode only (the else branch that extends
\* the top-level Command), so in single-track mode one value goes with
\* the workspace that has the full family of streams and both with the
\* others.
AudioParamChoicesFor(t, opus) == IF t = "/w" /\ opus THEN {<< >>} ELSE AudioParamChoices

(***************************************************************************)
(* Paths                                                                   *)
(***************************************************************************)
\* Path::new(dir).join(name): an absolute name replaces dir; otherwise name
\* is appended, after a separator unless dir is empty or ends with one
Join(dir, name) ==
  IF name # "" /\ SubSeq(name, 1, 1) = "/" THEN name
  ELSE IF dir = "" THEN name
  ELSE IF SubSeq(dir, Len(dir), Len(dir)) = "/" THEN dir \o name
  ELSE dir \o "/" \o name

\* temp.join("audio")
AudioDir(t) == Join(t, "audio")

\* Path::to_str().is_some(): the path is valid UTF-8
IsUtf8(p) == \A k \in 1..Len(p) : SubSeq(p, k, k) # InvalidByte

\* Path::to_string_lossy(): every invalid sequence becomes U+FFFD
RECURSIVE ToStringLossy(_)
ToStringLossy(p) ==
  IF p = "" THEN ""
  ELSE (IF SubSeq(p, 1, 1) = InvalidByte THEN Replacement ELSE SubSeq(p, 1, 1))
         \o ToStringLossy(SubSeq(p, 2, Len(p)))

\* format!("{}/audio/{}.opus", temp.to_string_lossy(), stream.index())
OpusPath(t, idx) == ToStringLossy(t) \o "/audio/" \o ToString(idx) \o ".opus"

\* encode_audio: audio_file
AudioFile_misc(t, opus) == Join(t, "misc.mkv")
AudioFile(t, opus) == IF opus THEN Join(t, "misc.mkv") ELSE Join(t, "audio.mkv")

\* encode_audio: the path handed to handle_opus as output and returned
FinalOutput_misc(t) == Join(t, "misc.mkv")
FinalOutput(t) == Join(t, "audio.mkv")

(***************************************************************************)
(* Probing                                                                 *)
(***************************************************************************)
IsAudio(s) == s.medium = "audio"

\* has_audio: ictx.streams().best(MediaType::Audio).is_some()
has_audio_anyStream(streams) == Len(streams) > 0
has_audio(streams) == \E i \in 1..Len(streams) : IsAudio(streams[i])

\* output.status.success()
StatusSuccess_always(status) == TRUE
StatusSuccess(status) == status = 0

(***************************************************************************)
(* Channel layout and bitrate (values in tenths: 2.1 is 21)                *)
(***************************************************************************)
\* ChannelLayout::from_bits: None iff the mask has a bit no flag names
FromBitsIsSome(layout) == layout # "unknown_bits"

get_channel_layout_float(s) ==
  IF FromBitsIsSome(s.layout)
  THEN CASE s.layout \in {"_2POINT1", "_2_1"} -> 21
         [] s.layout = "_2_2" -> 22
         [] s.layout = "_3POINT1" -> 31
         [] s.layout = "_4POINT1" -> 41
         [] s.layout \in {"_5POINT1", "_5POINT1_BACK"} -> 51
         [] s.layout \in {"_6POINT1", "_6POINT1_FRONT", "_6POINT1_BACK"} -> 61
         [] s.layout \in {"_7POINT1", "_7POINT1_WIDE", "_7POINT1_WIDE_BACK"} -> 71
         [] OTHER -> s.channels * 10
  ELSE CASE s.channels = 3 -> 21
         [] s.channels = 6 -> 51
         [] s.channels = 8 -> 71
         [] OTHER -> s.channels * 10

\* (128.0 * (layout / 2.0).powf(0.75)).round() as usize, tabulated in f32
Bitrate(l10) ==
  CASE l10 = 0 -> 0
    [] l10 = 10 -> 76
    [] l10 = 20 -> 128
    [] l10 = 21 -> 133
    [] l10 = 22 -> 137
    [] l10 = 30 -> 173
    [] l10 = 31 -> 178
    [] l10 = 40 -> 215
    [] l10 = 41 -> 219
    [] l10 = 50 -> 254
    [] l10 = 51 -> 258
    [] l10 = 60 -> 292
    [] l10 = 61 -> 295
    [] l10 = 70 -> 328
    [] l10 = 71 -> 331
    [] l10 = 80 -> 362
    [] l10 = 90 -> 395
    [] l10 = 100 -> 428

(***************************************************************************)
(* Command lines (argv, program first)                                     *)
(***************************************************************************)
\* encode_audio's Command
TopArgs(input, opus, params, audio_file) ==
  <<"ffmpeg", "-y", "-hide_banner", "-loglevel", "error", "-i", input,
    "-map_metadata", "0", "-vn", "-dn", "-map", "0", "-c", "copy">>
  \o (IF opus THEN <<"-map", "0:a:0">> ELSE params)
  \o <<audio_file>>

\* handle_opus: the per-stream extraction Command
Stage1Args(input, idx) ==
  <<"ffmpeg", "-hide_banner", "-v", "quiet", "-i", input,
    "-vn", "-sn", "-dn", "-map", "0:" \o ToString(idx),
    "-map_metadata", "0:s:" \o ToString(idx), "-f", "flac", "-">>

\* handle_opus: the per-stream opusenc Command
Stage2Args(t, idx, bitrate) ==
  <<"opusenc", "--quiet", "--vbr", "--bitrate", ToString(bitrate) \o "K", "-",
    OpusPath(t, idx)>>

\* handle_opus: the fold over audio_data building (input_args, map_args, c)
RECURSIVE MergeFold(_, _, _)
MergeFold(t, data, acc) ==
  IF data = << >> THEN acc
  ELSE MergeFold(t, Tail(data),
         [input_args |-> acc.input_args \o <<"-i", OpusPath(t, Head(data))>>,
          map_args |-> acc.map_args \o <<"-map", ToString(acc.c)>>,
          c |-> acc.c + 1])

\* handle_opus: the merge Command
MergeArgs(t, data, merge_with, output) ==
  LET f == MergeFold(t, data, [input_args |-> << >>, map_args |-> << >>, c |-> 0])
  IN <<"ffmpeg", "-y", "-hide_banner", "-v", "quiet">>
     \o f.input_args
     \o <<"-i", merge_with>>
     \o <<"-map 0:s">>
     \o f.map_args
     \o <<"-map", ToString(f.c)>>
     \o <<"-c", "copy">>
     \o <<output>>

(***************************************************************************)
(* Processes                                                               *)
(***************************************************************************)
\* a Command after spawn(): stream is the stream index, -1 when not per-stream
Proc(kind, stream, args, out, ok) ==
  [kind |-> kind, stream |-> stream, args |-> args, out |-> out,
   state |-> IF ok THEN "running" ELSE "nospawn",
   status |-> -1, waited |-> FALSE]

ExitStatuses == {0, 1}

Last(s) == s[Len(s)]

\* Child::wait / Command::output return once the child has exited
WaitReturns_early(p) == TRUE
WaitReturns(p) == p.state = "exited"

MarkWaited(ps, i) == [ps EXCEPT ![i].waited = TRUE]

\* Path::exists
Exists_never(path, files) == FALSE
Exists(path, files) == path \in files

\* fs::create_dir(dir): the directory is added, nothing else changes
CreateDir_fresh(dir, files) == {dir}
CreateDir(dir, files) == files \cup {dir}

\* the streams iterator of handle_opus, filtered to audio: first audio
\* stream index >= from, or -1
NextAudio_last(streams, from) ==
  LET c == {i \in from..(Len(streams) - 1) : IsAudio(streams[i + 1])}
  IN IF c = {} THEN -1 ELSE CHOOSE i \in c : \A j \in c : j <= i
NextAudio_any(streams, from) ==
  LET c == from..(Len(streams) - 1)
  IN IF c = {} THEN -1 ELSE CHOOSE i \in c : \A j \in c : i <= j
NextAudio(streams, from) ==
  LET c == {i \in from..(Len(streams) - 1) : IsAudio(streams[i + 1])}
  IN IF c = {} THEN -1 ELSE CHOOSE i \in c : \A j \in c : i <= j

\* no probing function is being called; the estimator is not being run
NoProbe == [fn |-> "none"]
NoEstimate == [step |-> "none"]

\* the calling thread has not panicked
NoPanic == "none"

Pending == [tag |-> "pending"]
None == [tag |-> "None"]
Some(p) == [tag |-> "Some", path |-> p]

(***************************************************************************)
(* Initial state: encode_audio(input, temp, opus_mode, audio_params) is    *)
(* about to run                                                            *)
(***************************************************************************)
Init ==
  /\ temp \in TempChoices
  /\ source \in [path : InputChoices, canOpen : BOOLEAN,
                  streams : SeqsUpTo(StreamChoicesFor(temp), MaxStreams)]
  /\ opus_mode \in BOOLEAN
  /\ audio_params \in AudioParamChoicesFor(temp, opus_mode)
  /\ fs0 \in {{}, {AudioDir(temp)}}
  /\ fs = fs0
  /\ pc = "start"
  /\ result = Pending
  /\ procs = << >>
  /\ cur = -1
  /\ audio_data = << >>
  /\ run = 1
  /\ prev = << >>
  /\ probe = NoProbe
  /\ est = NoEstimate
  /\ panic = NoPanic

inputs == <<source, temp, opus_mode, audio_params, fs0>>

(***************************************************************************)
(* encode_audio                                                            *)
(***************************************************************************)
\* has_audio(input) panics when the container cannot be opened (nothing in
\* this file decides whether a path opens: any path may or may not)
EncodeAudioOpenFails ==
  /\ pc = "start"
  /\ ~source.canOpen
  /\ pc' = "aborted"
  /\ panic' = "has_audio: input(&file).unwrap()"
  /\ UNCHANGED <<inputs, aside, fs, result, procs, cur, audio_data>>

\* no audio: the else branch, None
EncodeAudioNoAudio ==
  /\ pc = "start"
  /\ source.canOpen
  /\ ~has_audio(source.streams)
  /\ result' = None
  /\ pc' = "done"
  /\ UNCHANGED <<inputs, aside, panic, fs, procs, cur, audio_data>>

\* audio: build the Command and call output(), which spawns (unwrap: a
\* failed spawn panics) and then blocks
EncodeAudioSpawn ==
  /\ pc = "start"
  /\ source.canOpen
  /\ has_audio(source.streams)
  /\ LET audio_file == AudioFile(temp, opus_mode)
         args == TopArgs(source.path, opus_mode, audio_params, audio_file)
     IN \E ok \in BOOLEAN :
          /\ procs' = Append(procs, Proc("top", -1, args, audio_file, ok))
          /\ pc' = IF ok THEN "wait_top" ELSE "aborted"
          /\ panic' = IF ok THEN panic ELSE "encode_audio.output().unwrap()"
  /\ UNCHANGED <<inputs, aside, fs, result, cur, audio_data>>

\* output() returned.  Err (waiting for the child failed): unwrap panics.
\* Ok: the status decides.
EncodeAudioAfterOutput ==
  /\ pc = "wait_top"
  /\ WaitReturns(procs[1])
  /\ procs' = MarkWaited(procs, 1)
  /\ \E waited \in BOOLEAN :
       IF ~waited
       THEN /\ result' = result
            /\ pc' = "aborted"
            /\ panic' = "encode_audio.output().unwrap()"
       ELSE /\ panic' = panic
            /\ IF ~StatusSuccess(procs[1].status)
               THEN /\ result' = None
                    /\ pc' = "done"
               ELSE IF opus_mode
               THEN /\ result' = result
                    /\ pc' = "opus_enter"
               ELSE /\ result' = Some(procs[1].out)
                    /\ pc' = "done"
  /\ UNCHANGED <<inputs, aside, fs, cur, audio_data>>

(***************************************************************************)
(* handle_opus(input, merge_with = audio_file, output = temp/audio.mkv,    *)
(* temp)                                                                   *)
(***************************************************************************)
\* open the input again (unwrap: the file can have gone since has_audio
\* opened it), create temp/audio unless it exists (expect: a failed
\* create_dir panics), start the fold over the audio streams
HandleOpusEnter ==
  /\ pc = "opus_enter"
  /\ \E opened \in BOOLEAN :
       IF ~opened
       THEN /\ fs' = fs
            /\ cur' = cur
            /\ pc' = "aborted"
            /\ panic' = "handle_opus: input(&input).unwrap()"
       ELSE IF Exists(AudioDir(temp), fs)
       THEN /\ fs' = fs
            /\ cur' = NextAudio(source.streams, 0)
            /\ pc' = IF cur' = -1 THEN "spawn_merge" ELSE "spawn_stage1"
            /\ panic' = panic
       ELSE \E ok \in (IF AudioDir(temp) \in fs THEN {FALSE} ELSE BOOLEAN) :
              IF ok
              THEN /\ fs' = CreateDir(AudioDir(temp), fs)
                   /\ cur' = NextAudio(source.streams, 0)
                   /\ pc' = IF cur' = -1 THEN "spawn_merge" ELSE "spawn_stage1"
                   /\ panic' = panic
              ELSE /\ fs' = fs
                   /\ cur' = cur
                   /\ pc' = "aborted"
                   /\ panic' = "Failed to create audio folder"
  /\ UNCHANGED <<inputs, aside, result, procs, audio_data>>

\* Command::new("ffmpeg")....arg(input.to_str().unwrap()): an input path
\* that is not valid UTF-8 panics while the Command is built, nothing being
\* spawned.  Else spawn().expect("ffmpeg failed to start")
SpawnStage1 ==
  /\ pc = "spawn_stage1"
  /\ IF ~IsUtf8(source.path)
     THEN /\ procs' = procs
          /\ pc' = "aborted"
          /\ panic' = "input.to_str().unwrap()"
     ELSE \E ok \in BOOLEAN :
            /\ procs' = Append(procs, Proc("stage1", cur, Stage1Args(source.path, cur), "-", ok))
            /\ pc' = IF ok THEN "spawn_stage2" ELSE "aborted"
            /\ panic' = IF ok THEN panic ELSE "ffmpeg failed to start"
  /\ UNCHANGED <<inputs, aside, fs, result, cur, audio_data>>

\* Command::new("opusenc")...spawn().expect("opusenc failed to start")
SpawnStage2 ==
  /\ pc = "spawn_stage2"
  /\ LET s == source.streams[cur + 1]
         bitrate == Bitrate(get_channel_layout_float(s))
     IN \E ok \in BOOLEAN :
          /\ procs' = Append(procs, Proc("stage2", cur, Stage2Args(temp, cur, bitrate),
                                         OpusPath(temp, cur), ok))
          /\ pc' = IF ok THEN "wait_stage2" ELSE "aborted"
          /\ panic' = IF ok THEN panic ELSE "opusenc failed to start"
  /\ UNCHANGED <<inputs, aside, fs, result, cur, audio_data>>

\* opusenc.wait().expect("Opusenc crashed"): Err (waiting failed) panics.
\* Ok: vec.push(stream.index()); the exit status wait() returns is dropped.
\* Then the next audio stream, or the end of the fold.
WaitStage2 ==
  /\ pc = "wait_stage2"
  /\ WaitReturns(Last(procs))
  /\ procs' = MarkWaited(procs, Len(procs))
  /\ \E waited \in BOOLEAN :
       IF ~waited
       THEN /\ audio_data' = audio_data
            /\ cur' = cur
            /\ pc' = "aborted"
            /\ panic' = "Opusenc crashed"
       ELSE /\ audio_data' = Append(audio_data, cur)
            /\ cur' = NextAudio(source.streams, cur + 1)
            /\ pc' = IF cur' = -1 THEN "spawn_merge" ELSE "spawn_stage1"
            /\ panic' = panic
  /\ UNCHANGED <<inputs, aside, fs, result>>

\* the merge Command: .arg(merge_with.to_str().unwrap()) and then
\* .arg(output.to_str().unwrap()) panic, nothing being spawned, on a path
\* that is not valid UTF-8 (encode_audio derives both paths from temp).
\* Else spawn().expect("ffmpeg failed to start")
SpawnMerge ==
  /\ pc = "spawn_merge"
  /\ LET merge_with == AudioFile(temp, opus_mode)
         output == FinalOutput(temp)
         args == MergeArgs(temp, audio_data, merge_with, output)
     IN IF ~IsUtf8(merge_with)
        THEN /\ procs' = procs
             /\ pc' = "aborted"
             /\ panic' = "merge_with.to_str().unwrap()"
        ELSE IF ~IsUtf8(output)
        THEN /\ procs' = procs
             /\ pc' = "aborted"
             /\ panic' = "output.to_str().unwrap()"
        ELSE \E ok \in BOOLEAN :
               /\ procs' = Append(procs, Proc("merge", -1, args, output, ok))
               /\ pc' = IF ok THEN "wait_merge" ELSE "aborted"
               /\ panic' = IF ok THEN panic ELSE "ffmpeg failed to start (merge)"
  /\ UNCHANGED <<inputs, aside, fs, result, cur, audio_data>>

\* ffmpeg_merge.wait().expect("ffmpeg crashed while merging"): Err (waiting
\* failed) panics.  Ok: the exit status is dropped; handle_opus returns and
\* encode_audio returns Some(temp/audio.mkv)
WaitMerge ==
  /\ pc = "wait_merge"
  /\ WaitReturns(Last(procs))
  /\ procs' = MarkWaited(procs, Len(procs))
  /\ \E waited \in BOOLEAN :
       IF ~waited
       THEN /\ result' = result
            /\ pc' = "aborted"
            /\ panic' = "ffmpeg crashed while merging"
       ELSE /\ result' = Some(FinalOutput(temp))
            /\ pc' = "done"
            /\ panic' = panic
  /\ UNCHANGED <<inputs, aside, fs, cur, audio_data>>

(***************************************************************************)
(* Environment: a running child process exits with some status, during the *)
(* call or after it has ended (a child nobody waits for, the stage-1       *)
(* ffmpeg, is neither killed nor reaped and outlives the call).  A child   *)
(* that succeeds has written its output file; a child that cannot write    *)
(* its output does not succeed.                                            *)
(***************************************************************************)
\* ffmpeg replaces an existing output file only when given -y; opusenc
\* replaces its output file
Overwrites(args) == args[1] = "opusenc" \/ \E k \in 1..Len(args) : args[k] = "-y"

\* "-" is the standard output
CanWrite(p, files) == p.out = "-" \/ p.out \notin files \/ Overwrites(p.args)

ProcExit ==
  \E i \in 1..Len(procs) :
    /\ procs[i].state = "running"
    /\ \E st \in (IF CanWrite(procs[i], fs) THEN ExitStatuses ELSE ExitStatuses \ {0}) :
         /\ procs' = [procs EXCEPT ![i].state = "exited", ![i].status = st]
         /\ fs' = IF st = 0 /\ procs[i].out # "-" THEN fs \cup {procs[i].out} ELSE fs
    /\ UNCHANGED <<inputs, aside, panic, pc, result, cur, audio_data>>

Next ==
  \/ EncodeAudioOpenFails
  \/ EncodeAudioNoAudio
  \/ EncodeAudioSpawn
  \/ EncodeAudioAfterOutput
  \/ HandleOpusEnter
  \/ SpawnStage1
  \/ SpawnStage2
  \/ WaitStage2
  \/ SpawnMerge
  \/ WaitMerge
  \/ ProcExit

Spec == Init /\ [][Next]_vars

(***************************************************************************)
(* The same call on a smaller family of sources, for the specifications    *)
(* that follow a second call or assume fairness.                           *)
(***************************************************************************)
MaxFewStreams == 2

InitFew ==
  /\ source \in [path : InputChoices, canOpen : BOOLEAN,
                  streams : SeqsUpTo(FewStreamChoices, MaxFewStreams)]
  /\ temp \in TempChoices
  /\ opus_mode \in BOOLEAN
  /\ audio_params \in AudioParamChoicesFor(temp, opus_mode)
  /\ fs0 \in {{}, {AudioDir(temp)}}
  /\ fs = fs0
  /\ pc = "start"
  /\ result = Pending
  /\ procs = << >>
  /\ cur = -1
  /\ audio_data = << >>
  /\ run = 1
  /\ prev = << >>
  /\ probe = NoProbe
  /\ est = NoEstimate
  /\ panic = NoPanic

(***************************************************************************)
(* A second call of encode_audio with the same arguments on the workspace  *)
(* as the first call left it, the source unmodified.                       *)
(***************************************************************************)
\* of a sequence of Commands: the argv of each, the per-stream output
\* filenames, the exit status of the first (-1 when there is none)
ArgvOf(ps) == [i \in 1..Len(ps) |-> ps[i].args]
OpusOutputs(ps) == {ps[i].out : i \in {j \in 1..Len(ps) : ps[j].kind = "stage2"}}
TopStatusOf(ps) == IF ps = << >> THEN -1 ELSE ps[1].status

\* the first call has ended (returned or panicked); what it did is kept in
\* prev and the second call starts on the workspace as it is
Rerun ==
  /\ run = 1
  /\ pc \in {"done", "aborted"}
  /\ run' = 2
  /\ prev' = [argv |-> ArgvOf(procs), outs |-> OpusOutputs(procs),
              top |-> TopStatusOf(procs), pc |-> pc, result |-> result]
  /\ fs0' = fs
  /\ pc' = "start"
  /\ result' = Pending
  /\ procs' = << >>
  /\ cur' = -1
  /\ audio_data' = << >>
  /\ panic' = NoPanic
  /\ UNCHANGED <<source, temp, opus_mode, audio_params, fs, probe, est>>

NextRerun ==
  \/ Next
  \/ Rerun

SpecRerun == InitFew /\ [][NextRerun]_vars

(***************************************************************************)
(* One call in which the calling thread keeps running and every process    *)
(* that was spawned exits in the end.                                      *)
(***************************************************************************)
Orchestrate ==
  \/ EncodeAudioOpenFails
  \/ EncodeAudioNoAudio
  \/ EncodeAudioSpawn
  \/ EncodeAudioAfterOutput
  \/ HandleOpusEnter
  \/ SpawnStage1
  \/ SpawnStage2
  \/ WaitStage2
  \/ SpawnMerge
  \/ WaitMerge

SpecFair == InitFew /\ [][Next]_vars /\ WF_vars(Orchestrate) /\ WF_vars(ProcExit)

(***************************************************************************)
(* Media prober: num_frames, frame_rate, get_pixel_format, resolution,     *)
(* transfer_characteristics, get_keyframes, has_audio on one input file.   *)
(* A packet is [stream, key]: the index of its stream and its key flag.    *)
(***************************************************************************)
MaxProbeStreams == 2
MaxPackets == 3

ProbeStreamChoices == {VideoStream, SubtitleStream, AudioStream("STEREO", 2)}

PacketChoices(streams) == [stream : 0..(Len(streams) - 1), key : BOOLEAN]

\* Result<T, ffmpeg::Error>, and a panic (unwrap on Err)
Ok(v) == [tag |-> "Ok", value |-> v]
Err(e) == [tag |-> "Err", error |-> e]
Panicked == [tag |-> "panic"]

\* ictx.streams().best(medium): the answers the container library can give,
\* as the index of the stream, -1 for None.  Which stream of the medium it
\* takes for the best is the library's choice: any of them.
best(streams, medium) ==
  LET c == {i \in 0..(Len(streams) - 1) : streams[i + 1].medium = medium}
  IN IF c = {} THEN {-1} ELSE c

\* .filter(|(stream, _)| stream.index() == video_stream_index)
VideoPackets_all(packets, idx) == packets
VideoPackets(packets, idx) == SelectSeq(packets, LAMBDA p : p.stream = idx)

\* .enumerate().filter(|(_, packet)| packet.is_key()).map(|(i, _)| i)
RECURSIVE KeyIndices(_, _)
KeyIndices(packets, i) ==
  IF packets = << >> THEN << >>
  ELSE (IF Head(packets).key THEN <<i>> ELSE << >>) \o KeyIndices(Tail(packets), i + 1)

\* In the probing functions v is the answer of best(MediaType::Video).
num_frames(src, packets, v) ==
  IF ~src.canOpen THEN Err("open")
  ELSE IF v = -1 THEN Err("StreamNotFound")
  ELSE Ok(Len(VideoPackets(packets, v)))

frame_rate(src, v) ==
  IF ~src.canOpen THEN Err("open")
  ELSE IF v = -1 THEN Err("StreamNotFound")
  ELSE Ok(<<"avg_frame_rate", v>>)

\* get_pixel_format, resolution, transfer_characteristics: what names the
\* decoder field read; the decoder may fail to be built from the parameters
DecoderProbe(src, decoderOk, what, v) ==
  IF ~src.canOpen THEN Err("open")
  ELSE IF v = -1 THEN Err("StreamNotFound")
  ELSE IF ~decoderOk THEN Err("decoder")
  ELSE Ok(<<what, v>>)

get_keyframes_default(src, packets, v) ==
  IF ~src.canOpen THEN Err("open")
  ELSE LET kfs == IF v = -1 THEN << >> ELSE KeyIndices(VideoPackets(packets, v), 0)
       IN IF kfs = << >> THEN Ok(<<0>>) ELSE Ok(kfs)
get_keyframes(src, packets, v) ==
  IF ~src.canOpen THEN Err("open")
  ELSE IF v = -1 THEN Err("StreamNotFound")
  ELSE LET kfs == KeyIndices(VideoPackets(packets, v), 0)
       IN IF kfs = << >> THEN Ok(<<0>>) ELSE Ok(kfs)

\* has_audio as its caller sees it: input(&file).unwrap() panics, else a bool
has_audio_call(src) ==
  IF ~src.canOpen THEN Panicked ELSE Ok(best(src.streams, "audio") # {-1})

\* a file that cannot be opened shows no streams and no packets
InitProbe ==
  /\ source \in [path : {"in.mkv"}, canOpen : {FALSE}, streams : {<< >>}]
                  \cup [path : {"in.mkv"}, canOpen : {TRUE},
                        streams : SeqsUpTo(ProbeStreamChoices, MaxProbeStreams)]
  /\ probe \in [fn : {"idle"},
                video : best(source.streams, "video"),
                packets : SeqsUpTo(PacketChoices(source.streams), MaxPackets),
                decoderOk : BOOLEAN,
                out : {Pending}]
  /\ temp \in TempChoices
  /\ opus_mode = FALSE
  /\ audio_params = << >>
  /\ fs0 = {}
  /\ fs = {}
  /\ pc = "probe"
  /\ result = Pending
  /\ procs = << >>
  /\ cur = -1
  /\ audio_data = << >>
  /\ run = 1
  /\ prev = << >>
  /\ est = NoEstimate
  /\ panic = NoPanic

ProbeReturns(fn, out) ==
  /\ probe.fn = "idle"
  /\ probe' = [probe EXCEPT !.fn = fn, !.out = out]
  /\ UNCHANGED <<inputs, panic, fs, pc, result, procs, cur, audio_data, run, prev, est>>

CallNumFrames == ProbeReturns("num_frames", num_frames(source, probe.packets, probe.video))
CallFrameRate == ProbeReturns("frame_rate", frame_rate(source, probe.video))
CallGetPixelFormat ==
  ProbeReturns("get_pixel_format", DecoderProbe(source, probe.decoderOk, "format", probe.video))
CallResolution ==
  ProbeReturns("resolution", DecoderProbe(source, probe.decoderOk, "width_height", probe.video))
CallTransferCharacteristics ==
  ProbeReturns("transfer_characteristics",
               DecoderProbe(source, probe.decoderOk, "color_transfer_characteristic",
                           probe.video))
CallGetKeyframes == ProbeReturns("get_keyframes", get_keyframes(source, probe.packets, probe.video))
CallHasAudio == ProbeReturns("has_audio", has_audio_call(source))

NextProbe ==
  \/ CallNumFrames
  \/ CallFrameRate
  \/ CallGetPixelFormat
  \/ CallResolution
  \/ CallTransferCharacteristics
  \/ CallGetKeyframes
  \/ CallHasAudio

SpecProbe == InitProbe /\ [][NextProbe]_vars

(***************************************************************************)
(* Channel-layout bitrate estimator on one audio stream: the layout and    *)
(* bitrate lines of handle_opus's fold, and the --bitrate argument.        *)
(***************************************************************************)
MaxChannels == 8

\* the named layouts of ChannelLayout, with the channels of each
NamedLayouts ==
  {<<"MONO", 1>>, <<"STEREO", 2>>, <<"_2POINT1", 3>>, <<"_2_1", 3>>, <<"SURROUND", 3>>,
   <<"_3POINT1", 4>>, <<"_4POINT0", 4>>, <<"_4POINT1", 5>>, <<"_2_2", 4>>, <<"QUAD", 4>>,
   <<"_5POINT0", 5>>, <<"_5POINT1", 6>>, <<"_5POINT0_BACK", 5>>, <<"_5POINT1_BACK", 6>>,
   <<"_6POINT0", 6>>, <<"_6POINT0_FRONT", 6>>, <<"HEXAGONAL", 6>>, <<"_6POINT1", 7>>,
   <<"_6POINT1_BACK", 7>>, <<"_6POINT1_FRONT", 7>>, <<"_7POINT0", 7>>,
   <<"_7POINT0_FRONT", 7>>, <<"_7POINT1", 8>>, <<"_7POINT1_WIDE", 8>>,
   <<"_7POINT1_WIDE_BACK", 8>>, <<"OCTAGONAL", 8>>}

\* audio streams: a named mask with its channels, or a zero mask
\* (layout unspecified) or a mask with bits no flag names, with any count
\* the container reports, 0 included
EstimatorStreams ==
  {AudioStream(l[1], l[2]) : l \in NamedLayouts}
    \cup {AudioStream(m, c) : m \in {"zero", "unknown_bits"}, c \in 0..MaxChannels}

InitEstimator ==
  /\ est \in [step : {"stream"}, stream : EstimatorStreams,
              layout : {-1}, bitrate : {-1}, arg : {""}]
  /\ source = [path |-> "in.mkv", canOpen |-> TRUE, streams |-> <<est.stream>>]
  /\ temp \in TempChoices
  /\ opus_mode = TRUE
  /\ audio_params = << >>
  /\ fs0 = {}
  /\ fs = {}
  /\ pc = "estimate"
  /\ result = Pending
  /\ procs = << >>
  /\ cur = -1
  /\ audio_data = << >>
  /\ run = 1
  /\ prev = << >>
  /\ probe = NoProbe
  /\ panic = NoPanic

\* let layout = get_channel_layout_float(&stream)
EstimateLayout ==
  /\ est.step = "stream"
  /\ est' = [est EXCEPT !.step = "layout", !.layout = get_channel_layout_float(est.stream)]
  /\ UNCHANGED <<inputs, panic, fs, pc, result, procs, cur, audio_data, run, prev, probe>>

\* let bitrate = ...; .arg(format!("{bitrate}K"))
EstimateBitrate ==
  /\ est.step = "layout"
  /\ LET bitrate == Bitrate(est.layout)
     IN est' = [est EXCEPT !.step = "bitrate", !.bitrate = bitrate,
                           !.arg = Stage2Args(temp, 0, bitrate)[5]]
  /\ UNCHANGED <<inputs, panic, fs, pc, result, procs, cur, audio_data, run, prev, probe>>

NextEstimator ==
  \/ EstimateLayout
  \/ EstimateBitrate

SpecEstimator == InitEstimator /\ [][NextEstimator]_vars

(***************************************************************************)
(* Vocabulary of the properties                                            *)
(***************************************************************************)
Spawned(p) == p.state # "nospawn"
ExitedNonZero(p) == p.state = "exited" /\ p.status # 0
Failed(p) == p.state = "nospawn" \/ ExitedNonZero(p)
PerStream(p) == p.kind \in {"stage1", "stage2"}
AudioIndices == {i \in 0..(Len(source.streams) - 1) : source.streams[i + 1].medium = "audio"}
NumAudio == Cardinality(AudioIndices)
Returned == result.tag = "Some"

\* the arguments that follow an argument equal to flag, in order
RECURSIVE ValuesOf(_, _)
ValuesOf(flag, args) ==
  IF Len(args) < 2 THEN << >>
  ELSE IF Head(args) = flag
       THEN <<args[2]>> \o ValuesOf(flag, Tail(Tail(args)))
       ELSE ValuesOf(flag, Tail(args))

Range(s) == {s[i] : i \in 1..Len(s)}

\* this step spawns the merge process
MergeSpawnedNow ==
  /\ Len(procs') = Len(procs) + 1
  /\ Last(procs').kind = "merge"
  /\ Spawned(Last(procs'))

(***************************************************************************)
(* C1: once a stage-1 or stage-2 process of some stream could not be       *)
(* spawned or has exited non-zero, the run is aborted: no later step       *)
(* spawns the merge process and no later step makes encode_audio return    *)
(* a path.                                                                 *)
(***************************************************************************)
C1_StreamFailureAbortsRun ==
  [][(\E i \in 1..Len(procs) : PerStream(procs[i]) /\ Failed(procs[i]))
       => /\ ~MergeSpawnedNow
          /\ (~Returned => ~Returned')]_vars

(***************************************************************************)
(* C2: a merge process that was waited on and exited non-zero aborts the   *)
(* run: encode_audio does not complete normally and returns no path.       *)
(***************************************************************************)
C2_MergeFailureAbortsRun ==
  \A i \in 1..Len(procs) :
    (procs[i].kind = "merge" /\ procs[i].waited /\ ExitedNonZero(procs[i]))
      => (pc # "done" /\ ~Returned)

(***************************************************************************)
(* C3: encode_audio returns Some(output) only if the source has audio and  *)
(* no external process of the call has exited non-zero at the time it      *)
(* returns; every other completed call returns None.                       *)
(***************************************************************************)
C3_SomeOnlyIfAllSucceeded ==
  /\ Returned => /\ AudioIndices # {}
                 /\ \A i \in 1..Len(procs) : ~Failed(procs[i])
  /\ (pc = "done" /\ ~Returned) => result = None

(***************************************************************************)
(* C4: when the top-level ffmpeg has exited with a non-success status,     *)
(* encode_audio returns None and does not abort, in both modes, and        *)
(* handle_opus is not entered: no audio/ directory is created and no       *)
(* further process is spawned.                                             *)
(***************************************************************************)
TopFailed ==
  /\ Len(procs) >= 1
  /\ procs[1].kind = "top"
  /\ ExitedNonZero(procs[1])

C4_TopFailureReturnsNone ==
  TopFailed =>
    /\ Len(procs) = 1
    /\ pc \in {"wait_top", "done"}
    /\ pc = "done" => result = None
    /\ panic = NoPanic
    /\ Join(temp, "audio") \in fs => Join(temp, "audio") \in fs0

(***************************************************************************)
(* C4 as amended: after the top-level ffmpeg has exited with a non-success *)
(* status the call ends in one of two ways and in no other.  output()      *)
(* hands the status over and encode_audio returns None, in both modes; or  *)
(* output() itself returns Err, waiting for the process having failed, and *)
(* the unwrap on it panics.  In both, handle_opus is not entered: the      *)
(* top-level process stays the only one, no audio/ directory is created    *)
(* and no path is returned.                                                *)
(***************************************************************************)
C4_TopFailureIsSoft ==
  TopFailed =>
    /\ Len(procs) = 1
    /\ pc \in {"wait_top", "done", "aborted"}
    /\ pc = "wait_top" => (result = Pending /\ panic = NoPanic)
    /\ pc = "done" => (result = None /\ panic = NoPanic /\ procs[1].waited)
    /\ pc = "aborted" => (result = Pending /\ panic = "encode_audio.output().unwrap()")
    /\ ~Returned
    /\ Join(temp, "audio") \in fs => Join(temp, "audio") \in fs0

C4_Witness ==
  /\ TopFailed
  /\ opus_mode
  /\ pc = "done"
  /\ result = None
  /\ Join(temp, "audio") \notin fs0

(***************************************************************************)
(* C5: for a source that opens and has no audio stream, encode_audio       *)
(* returns None, tries to spawn no process and leaves the workspace as it  *)
(* found it, in both modes and for any extra parameters.                   *)
(***************************************************************************)
C5_NoAudioNoProcess ==
  (source.canOpen /\ AudioIndices = {}) =>
    /\ procs = << >>
    /\ fs = fs0
    /\ pc \in {"start", "done"}
    /\ pc = "done" => result = None

C5_Witness ==
  /\ source.canOpen
  /\ AudioIndices = {}
  /\ Len(source.streams) >= 2
  /\ audio_params # << >>
  /\ pc = "done"
  /\ result = None

(***************************************************************************)
(* C6: when the merge process is spawned for a source with N audio         *)
(* streams, the per-stream encoder has run exactly N times with pairwise   *)
(* distinct outputs <temp>/audio/<index>.opus, and the merge command has   *)
(* N+1 inputs, the last being merge_with, and maps one audio stream from   *)
(* each of the first N inputs plus the subtitle streams of the last input  *)
(* (<N>:s) and nothing else.                                               *)
(***************************************************************************)
Stage2Procs == {i \in 1..Len(procs) : procs[i].kind = "stage2"}

C6_MergeMapsNAudioPlusSubtitles ==
  (procs # << >> /\ Last(procs).kind = "merge" /\ Spawned(Last(procs))) =>
    LET N == NumAudio
        m == Last(procs)
        ins == ValuesOf("-i", m.args)
        maps == ValuesOf("-map", m.args)
    IN /\ Cardinality(Stage2Procs) = N
       /\ {procs[i].out : i \in Stage2Procs}
            = {temp \o "/audio/" \o ToString(k) \o ".opus" : k \in AudioIndices}
       /\ Len(ins) = N + 1
       /\ ins[N + 1] = Join(temp, "misc.mkv")
       /\ Len(maps) = N + 1
       /\ \A k \in 0..(N - 1) :
            \E j \in 1..Len(maps) : maps[j] \in {ToString(k), ToString(k) \o ":a"}
       /\ \E j \in 1..Len(maps) : maps[j] = ToString(N) \o ":s"

(***************************************************************************)
(* C7: in single-track mode the top-level ffmpeg command selects exactly   *)
(* one stream for the intermediate file, the first audio stream: its only  *)
(* -map argument is 0:a:0.                                                 *)
(***************************************************************************)
C7_SingleTrackSelectsFirstAudioOnly ==
  (opus_mode /\ procs # << >>) =>
    ValuesOf("-map", procs[1].args) = <<"0:a:0">>

(***************************************************************************)
(* C8: in standard mode a call on a source with audio spawns exactly one   *)
(* process; its arguments end with the caller's extra parameters in their  *)
(* order followed by <temp>/audio.mkv; no per-stream or merge process is   *)
(* spawned; on success the result is Some(<temp>/audio.mkv).               *)
(***************************************************************************)
EndsWith(args, tail) ==
  /\ Len(args) >= Len(tail)
  /\ SubSeq(args, Len(args) - Len(tail) + 1, Len(args)) = tail

C8_StandardModeOneProcess ==
  ~opus_mode =>
    /\ Len(procs) <= 1
    /\ \A i \in 1..Len(procs) :
         /\ procs[i].kind = "top"
         /\ EndsWith(procs[i].args, audio_params \o <<Join(temp, "audio.mkv")>>)
    /\ (pc = "done" /\ AudioIndices # {}) => (Len(procs) = 1 /\ Spawned(procs[1]))
    /\ (pc = "done" /\ AudioIndices # {} /\ procs[1].status = 0)
         => result = Some(Join(temp, "audio.mkv"))
    /\ Returned => result.path = Join(temp, "audio.mkv")

C8_Witness ==
  /\ ~opus_mode
  /\ pc = "done"
  /\ Len(audio_params) >= 2
  /\ NumAudio >= 2
  /\ result = Some(Join(temp, "audio.mkv"))

(***************************************************************************)
(* C9: handle_opus handles the audio streams in ascending index order,     *)
(* one at a time: a stream's stage-1 process is directly followed by its   *)
(* stage-2 process, whatever is spawned after a stage-2 process is spawned *)
(* after that process exited and was waited on, and the merge process      *)
(* comes last, after the stage-2 process of every audio stream.            *)
(***************************************************************************)
C9_StreamsSequentialAscending ==
  LET n == Len(procs)
      A == AudioIndices
      stage1s == {i \in 1..n : procs[i].kind = "stage1"}
  IN /\ \A j \in 1..n :
          /\ procs[j].kind = "top" => j = 1
          /\ PerStream(procs[j]) => procs[j].stream \in A
          /\ procs[j].kind = "stage2"
               => /\ j > 1
                  /\ procs[j - 1].kind = "stage1"
                  /\ procs[j - 1].stream = procs[j].stream
                  /\ j < n => (procs[j].state = "exited" /\ procs[j].waited)
          /\ procs[j].kind = "merge"
               => /\ j = n
                  /\ {procs[i].stream : i \in {h \in 1..(j - 1) : procs[h].kind = "stage2"}} = A
     /\ \A i \in stage1s : \A j \in stage1s :
          i < j => procs[i].stream < procs[j].stream

C9_Witness ==
  /\ NumAudio >= 2
  /\ Len(source.streams) > NumAudio
  /\ procs # << >>
  /\ Last(procs).kind = "merge"
  /\ Spawned(Last(procs))

(***************************************************************************)
(* C10: no process of a later stream, and no merge process, is spawned     *)
(* while the stage-1 process of an earlier stream is still running or has  *)
(* an exit status nobody waited for.                                       *)
(***************************************************************************)
C10_Stage1ReapedBeforeProceeding ==
  \A i \in 1..Len(procs) : \A j \in (i + 1)..Len(procs) :
    (procs[i].kind = "stage1" /\ procs[j].stream # procs[i].stream /\ Spawned(procs[j]))
      => (procs[i].state = "exited" /\ procs[i].waited)

(***************************************************************************)
(* C11: on a source with a video stream get_keyframes numbers the packets  *)
(* of the best video stream from 0 in file order, packets of other streams *)
(* not counting, and returns the ascending list of the numbers of the key  *)
(* packets; with no key packet it returns [0].  The list is never empty.   *)
(* The best video stream is the one the container library answers, which   *)
(* need not be the first video stream of the file.                         *)
(***************************************************************************)
BestVideoPackets == SelectSeq(probe.packets, LAMBDA p : p.stream = probe.video)

HasVideo == \E i \in 1..Len(source.streams) : source.streams[i].medium = "video"

KeyFramesCalled == probe.fn = "get_keyframes" /\ source.canOpen /\ HasVideo

C11_KeyframesOfBestVideoStream ==
  KeyFramesCalled =>
    LET vp == BestVideoPackets
        keys == {i \in 0..(Len(vp) - 1) : vp[i + 1].key}
        kfs == probe.out.value
    IN /\ probe.out.tag = "Ok"
       /\ kfs # << >>
       /\ \A a \in 1..(Len(kfs) - 1) : kfs[a] < kfs[a + 1]
       /\ Range(kfs) = (IF keys = {} THEN {0} ELSE keys)

C11_Witness ==
  /\ KeyFramesCalled
  /\ Len(BestVideoPackets) < Len(probe.packets)
  /\ source.streams[1].medium = "video"
  /\ probe.video = 1
  /\ probe.packets[1].stream = 0
  /\ probe.out = Ok(<<1>>)

(***************************************************************************)
(* C13: every probing function reports a container that cannot be opened,  *)
(* and every video probe a source with no video stream, as an Err value    *)
(* (StreamNotFound for the missing video stream), never as a default; in   *)
(* particular get_keyframes returns an error, not [0], without a video     *)
(* stream.                                                                 *)
(***************************************************************************)
VideoProbes ==
  {"num_frames", "frame_rate", "get_pixel_format", "resolution",
   "transfer_characteristics", "get_keyframes"}

C13_ProbesReturnTypedFailure ==
  /\ (probe.fn \in VideoProbes \cup {"has_audio"} /\ ~source.canOpen)
       => probe.out.tag = "Err"
  /\ (probe.fn \in VideoProbes /\ source.canOpen /\ ~HasVideo)
       => probe.out = Err("StreamNotFound")

(***************************************************************************)
(* C13 as amended: the six video probes return Err for a container that    *)
(* cannot be opened and Err(StreamNotFound) for a source with no video     *)
(* stream, never a default; has_audio returns a bool for a source that     *)
(* opens and panics, returning nothing, for one that does not.             *)
(***************************************************************************)
C13_VideoProbesReturnTypedFailure ==
  /\ (probe.fn \in VideoProbes /\ ~source.canOpen) => probe.out = Err("open")
  /\ (probe.fn \in VideoProbes /\ source.canOpen /\ ~HasVideo)
       => probe.out = Err("StreamNotFound")
  /\ (probe.fn \in VideoProbes /\ probe.out.tag = "Ok") => (source.canOpen /\ HasVideo)
  /\ probe.fn = "has_audio"
       => probe.out = (IF source.canOpen THEN Ok(AudioIndices # {}) ELSE Panicked)

C13_Witness ==
  /\ probe.fn = "get_keyframes"
  /\ source.canOpen
  /\ ~HasVideo
  /\ Len(probe.packets) >= 2
  /\ probe.out = Err("StreamNotFound")

(***************************************************************************)
(* C12: for a stream whose channel-layout mask is absent (zero) or cannot  *)
(* be decoded, get_channel_layout_float returns the count-based table      *)
(* value: 3 gives 2.1, 6 gives 5.1, 8 gives 7.1, any other count itself.   *)
(***************************************************************************)
CountTable(c) ==
  CASE c = 3 -> 21
    [] c = 6 -> 51
    [] c = 8 -> 71
    [] OTHER -> 10 * c

C12_NoLayoutUsesCountTable ==
  (est.step \in {"layout", "bitrate"} /\ est.stream.layout \in {"zero", "unknown_bits"})
    => est.layout = CountTable(est.stream.channels)

(***************************************************************************)
(* C15: the bitrate handed to opusenc is round(128 * (e / 2)^0.75) for the *)
(* stream's channel equivalent e, as <bitrate>K; it is 128 for e = 2, a    *)
(* positive integer for every stream, and not smaller than the bitrate of  *)
(* any smaller e.                                                          *)
(* With x = 10 e:  b = round(128 (x/20)^(3/4))  iff                        *)
(*   8000 (2b-1)^4 <= 2^32 x^3 < 8000 (2b+1)^4,                            *)
(* the lower bound being void for b = 0, compared in exact arithmetic on   *)
(* numbers held as base-10000 digits, least significant first.             *)
(***************************************************************************)
RECURSIVE TimesCarry(_, _, _)
TimesCarry(n, k, carry) ==
  IF n = << >>
  THEN (IF carry = 0 THEN << >>
        ELSE <<carry % 10000>> \o TimesCarry(n, k, carry \div 10000))
  ELSE LET v == Head(n) * k + carry
       IN <<v % 10000>> \o TimesCarry(Tail(n), k, v \div 10000)

Times(n, k) == TimesCarry(n, k, 0)

RECURSIVE Less(_, _)
Less(a, b) ==
  IF Len(a) # Len(b) THEN Len(a) < Len(b)
  ELSE IF a = << >> THEN FALSE
  ELSE IF Last(a) # Last(b) THEN Last(a) < Last(b)
  ELSE Less(SubSeq(a, 1, Len(a) - 1), SubSeq(b, 1, Len(b) - 1))

Fourth8000(m) == Times(Times(Times(Times(Times(<<1>>, m), m), m), m), 8000)
Cube2to32(x) == Times(Times(Times(Times(Times(<<1>>, x), x), x), 65536), 65536)

RoundsTo(b, x) ==
  /\ b >= 0
  /\ b = 0 \/ ~Less(Cube2to32(x), Fourth8000(2 * b - 1))
  /\ Less(Cube2to32(x), Fourth8000(2 * b + 1))

ChannelEquivalents == {get_channel_layout_float(s) : s \in EstimatorStreams}

C15_BitrateIsPowerLaw ==
  est.step = "bitrate" =>
    /\ RoundsTo(est.bitrate, est.layout)
    /\ est.bitrate > 0
    /\ est.layout = 20 => est.bitrate = 128
    /\ est.arg = ToString(est.bitrate) \o "K"
    /\ \A x \in ChannelEquivalents : x <= est.layout => Bitrate(x) <= est.bitrate

(***************************************************************************)
(* C16: in the merge command for audio streams k_1 < ... < k_N the i-th    *)
(* input is <temp>/audio/<k_i>.opus, the last input is merge_with, the     *)
(* subtitle map names that last input (<N>:s), each per-stream file has an *)
(* audio map naming its own input number, the codec option is copy and the *)
(* output path is the final argument.                                      *)
(***************************************************************************)
MergeSpawned == procs # << >> /\ Last(procs).kind = "merge" /\ Spawned(Last(procs))

\* the layout of the merge command apart from the subtitle map
MergeShape(m) ==
  LET N == Len(audio_data)
      ins == ValuesOf("-i", m.args)
      maps == ValuesOf("-map", m.args)
  IN /\ N = NumAudio
     /\ \A a \in 1..(N - 1) : audio_data[a] < audio_data[a + 1]
     /\ Len(ins) = N + 1
     /\ \A a \in 1..N : ins[a] = temp \o "/audio/" \o ToString(audio_data[a]) \o ".opus"
     /\ ins[N + 1] = Join(temp, "misc.mkv")
     /\ \A k \in 0..(N - 1) : \E j \in 1..Len(maps) : maps[j] = ToString(k)
     /\ ValuesOf("-c", m.args) = <<"copy">>
     /\ Last(m.args) = Join(temp, "audio.mkv")

C16_MergeCommandLayout ==
  MergeSpawned =>
    /\ MergeShape(Last(procs))
    /\ \E j \in 1..Len(ValuesOf("-map", Last(procs).args)) :
         ValuesOf("-map", Last(procs).args)[j] = ToString(Len(audio_data)) \o ":s"

(***************************************************************************)
(* C17: in single-track mode the top-level ffmpeg writes <temp>/misc.mkv;  *)
(* handle_opus runs only after that process exited with success, once,     *)
(* with the original source as input, <temp>/misc.mkv as merge_with and    *)
(* <temp>/audio.mkv as output, a different file; its per-stream processes  *)
(* read the original source and cover audio streams of the original        *)
(* source; and a call whose top-level process succeeded returns            *)
(* Some(<temp>/audio.mkv).  The command line of a process is fixed when it *)
(* is spawned, so it is examined while the process is the newest one.      *)
(***************************************************************************)
\* the positions of the arguments equal to flag that have a successor
FlagPositions(flag, args) == {k \in 1..(Len(args) - 1) : args[k] = flag}

InHandleOpus ==
  pc \in {"opus_enter", "spawn_stage1", "spawn_stage2", "wait_stage2",
          "spawn_merge", "wait_merge"}

Ended == pc \in {"done", "aborted"}

\* the top-level process has exited with success
TopSucceeded ==
  /\ Len(procs) >= 1
  /\ procs[1].kind = "top"
  /\ procs[1].state = "exited"
  /\ procs[1].status = 0

\* what is handed to whom, and when
HandsOver ==
  LET misc == Join(temp, "misc.mkv")
      final == Join(temp, "audio.mkv")
      n == Len(procs)
      A == AudioIndices
      stage1s == {i \in 2..n : procs[i].kind = "stage1"}
  IN /\ misc # final
     /\ \A i \in 1..n : procs[i].kind = "top" <=> i = 1
     /\ n >= 1 => (Last(procs[1].args) = misc /\ procs[1].out = misc)
     /\ (n >= 2 \/ InHandleOpus)
          => /\ TopSucceeded
             /\ procs[1].waited
             /\ misc \in fs
     /\ \A i \in 2..n : /\ PerStream(procs[i]) => procs[i].stream \in A
                        /\ procs[i].kind = "merge" => i = n
     /\ n >= 2 =>
          LET p == procs[n]
              ins == FlagPositions("-i", p.args)
              maps == FlagPositions("-map", p.args)
          IN /\ p.kind = "stage1"
                  => /\ Cardinality(ins) = 1
                     /\ \A k \in ins : p.args[k + 1] = source.path
                     /\ Cardinality(maps) = 1
                     /\ \A k \in maps : p.args[k + 1] = "0:" \o ToString(p.stream)
             /\ p.kind = "stage2"
                  => Last(p.args)
                       = ToStringLossy(temp) \o "/audio/" \o ToString(p.stream) \o ".opus"
             /\ p.kind = "merge"
                  => /\ \E k \in ins : p.args[k + 1] = misc /\ \A h \in ins : h <= k
                     /\ Last(p.args) = final
     /\ Cardinality({procs[i].stream : i \in stage1s}) = Cardinality(stage1s)
     /\ Returned => result = Some(final)

C17_SuccessfulTopReturnsSome ==
  opus_mode =>
    /\ HandsOver
    /\ (Ended /\ TopSucceeded) => result = Some(Join(temp, "audio.mkv"))

(***************************************************************************)
(* C17 as amended: the hand-over is as C17 says, and a single-track call   *)
(* whose top-level process succeeded returns Some(<temp>/audio.mkv) when   *)
(* it returns, which it does after the merge process was waited for, every *)
(* audio stream having had its stage-2 process.  It does not return when   *)
(* an unwrap or expect on the way panics: output() or a wait returning     *)
(* Err, the input not opening again, create_dir failing (only entered when *)
(* audio/ does not exist), a process not starting, or a path that is not   *)
(* valid UTF-8 (the input with the first audio stream, merge_with or       *)
(* output at the merge); nothing is returned then.  With such an input or  *)
(* workspace path no single-track call returns a path.                     *)
(***************************************************************************)
HandleOpusPanics ==
  {"handle_opus: input(&input).unwrap()", "Failed to create audio folder",
   "input.to_str().unwrap()", "ffmpeg failed to start", "opusenc failed to start",
   "Opusenc crashed", "merge_with.to_str().unwrap()", "output.to_str().unwrap()",
   "ffmpeg failed to start (merge)", "ffmpeg crashed while merging"}

C17_SingleTrackHandsOver ==
  opus_mode =>
    LET n == Len(procs)
    IN /\ HandsOver
       /\ (pc = "done" /\ TopSucceeded)
            => /\ result = Some(Join(temp, "audio.mkv"))
               /\ panic = NoPanic
               /\ Last(procs).kind = "merge"
               /\ Last(procs).waited
               /\ {procs[i].stream : i \in Stage2Procs} = AudioIndices
       /\ pc = "aborted"
            => /\ result = Pending
               /\ panic # NoPanic
               /\ (n >= 1 /\ procs[1].waited /\ TopSucceeded
                     /\ panic # "encode_audio.output().unwrap()")
                    => panic \in HandleOpusPanics
               /\ panic = "Failed to create audio folder"
                    => (n = 1 /\ Join(temp, "audio") \notin fs)
               /\ panic = "input.to_str().unwrap()"
                    => (~IsUtf8(source.path) /\ n = 1)
               /\ panic \in {"merge_with.to_str().unwrap()", "output.to_str().unwrap()"}
                    => (~IsUtf8(temp) /\ n = 2 * NumAudio + 1)
       /\ (~IsUtf8(source.path) \/ ~IsUtf8(temp)) => ~Returned

C17_Witness ==
  /\ opus_mode
  /\ pc = "done"
  /\ NumAudio >= 2
  /\ Len(source.streams) > NumAudio
  /\ Len(procs) = 2 * NumAudio + 2
  /\ procs[1].status = 0
  /\ (Join(temp, "misc.mkv")) \in fs
  /\ result = Some(Join(temp, "audio.mkv"))

(***************************************************************************)
(* C18: no step of encode_audio or handle_opus, and no process they spawn, *)
(* removes a file or directory of the workspace: in every step, of a run   *)
(* that completes, fails or aborts alike, everything present before the    *)
(* step is present after it.                                               *)
(***************************************************************************)
C18_WorkspaceOnlyGrows == [][fs \subseteq fs']_vars

C18_Witness ==
  /\ pc = "aborted"
  /\ panic = "merge_with.to_str().unwrap()"
  /\ NumAudio >= 2
  /\ Join(temp, "audio") \in (fs \ fs0)
  /\ (Join(temp, "misc.mkv")) \in fs
  /\ \E k \in AudioIndices : OpusPath(temp, k) \in fs

(***************************************************************************)
(* C14: a second call of encode_audio on the same unmodified source with   *)
(* the same workspace, mode and parameters spawns the same sequence of     *)
(* commands as the first and has the same per-stream output filenames,     *)
(* set and count; and the second call does not fail because the audio/     *)
(* directory or an output file of the first call exists.                   *)
(***************************************************************************)
C14_SecondCallSameCommands ==
  (run = 2 /\ Ended) =>
    /\ ArgvOf(procs) = prev.argv
    /\ OpusOutputs(procs) = prev.outs
    /\ (pc = "aborted" /\ panic = "Failed to create audio folder")
         => Join(temp, "audio") \notin fs

(***************************************************************************)
(* C14 as amended: each command the second call builds is the one the      *)
(* first call built at the same position, for as long as both calls go on  *)
(* (of the two command sequences one is a prefix of the other); how far    *)
(* each call goes depends on what the processes and the system do, which   *)
(* can differ between the calls.  When both calls return after the same    *)
(* top-level exit status, the command sequences, the per-stream output     *)
(* filenames (set and count) and the result are equal.  Nothing in the     *)
(* second call's own steps fails on what the first left behind: audio/ is  *)
(* created, and can panic, only when it does not exist, and each ffmpeg    *)
(* command that writes a file carries -y; opusenc is given no option about *)
(* an existing output file.                                                *)
(***************************************************************************)
C14_SecondCallRepeatsFirst ==
  run = 2 =>
    /\ \A i \in 1..Len(procs) : i <= Len(prev.argv) => procs[i].args = prev.argv[i]
    /\ OpusOutputs(procs) \subseteq prev.outs \/ prev.outs \subseteq OpusOutputs(procs)
    /\ (pc = "done" /\ prev.pc = "done" /\ TopStatusOf(procs) = prev.top)
         => /\ ArgvOf(procs) = prev.argv
            /\ OpusOutputs(procs) = prev.outs
            /\ Cardinality(OpusOutputs(procs)) = Cardinality(prev.outs)
            /\ Cardinality(OpusOutputs(procs)) = (IF Returned /\ opus_mode THEN NumAudio ELSE 0)
            /\ result = prev.result
    /\ \A i \in 1..Len(procs) :
         /\ procs[i].kind \in {"top", "merge"}
              => (procs[i].out # "-" /\ procs[i].args[2] = "-y")
         /\ procs[i].kind = "stage1" => procs[i].out = "-"
         /\ procs[i].kind = "stage2" => "-y" \notin Range(procs[i].args)
    /\ (pc = "aborted" /\ panic = "Failed to create audio folder")
         => Join(temp, "audio") \notin fs

C14_Witness ==
  /\ run = 2
  /\ opus_mode
  /\ NumAudio >= 2
  /\ prev.pc = "done"
  /\ prev.result = Some(Join(temp, "audio.mkv"))
  /\ {Join(temp, "audio"), Join(temp, "misc.mkv"), Join(temp, "audio.mkv"),
      temp \o "/audio/0.opus", temp \o "/audio/1.opus"} \subseteq fs0
  /\ pc = "done"
  /\ result = Some(Join(temp, "audio.mkv"))
  /\ \A i \in 1..Len(procs) : procs[i].status = 0

(***************************************************************************)
(* C19: when every spawned process exits in the end, encode_audio returns  *)
(* or aborts in the end; at any time it has spawned at most 2N+2 processes *)
(* for a source with N audio streams in single-track mode and at most one  *)
(* in standard mode; and while the stage-2 or merge process it waits for   *)
(* is running, it does not return and no process is spawned.               *)
(***************************************************************************)
SpawnedCount == Cardinality({i \in 1..Len(procs) : Spawned(procs[i])})

AwaitedStillRunning ==
  /\ pc \in {"wait_stage2", "wait_merge"}
  /\ Last(procs).state = "running"

C19_TerminatesWithinBudget ==
  /\ <>Ended
  /\ [](SpawnedCount <= (IF opus_mode THEN 2 * NumAudio + 2 ELSE 1))
  /\ [][AwaitedStillRunning => (pc' = pc /\ result' = result /\ Len(procs') = Len(procs))]_vars

C19_Witness ==
  /\ opus_mode
  /\ NumAudio >= 2
  /\ pc = "done"
  /\ Returned
  /\ SpawnedCount = 2 * NumAudio + 2

====
